---- MODULE Spec2Model ----
(***************************************************************************)
(* Model of the SRT correction / restoration tool (srt_common.py,          *)
(* srt_corrector.py, srt_restorer.py).                                     *)
(*                                                                         *)
(* Spec      : one run of the batch transform engine                       *)
(*             (correct_readings_batch / restore_readings_batch).          *)
(* FairSpec  : Spec with weak fairness of the engine's steps.              *)
(* RulesSpec : the rule file under add_rule / remove_rule.                 *)
(*                                                                         *)
(* Python strings are sequences of one-character strings, so that strip,   *)
(* replace and str(int) are computed and not assumed.                      *)
(***************************************************************************)
EXTENDS Integers, Sequences, FiniteSets, TLC

VARIABLES
    direction,          \* "correct" (srt_corrector) or "restore" (srt_restorer)
    entries,            \* the input document: sequence of entries
    rules,              \* the rule set handed to the engine
    batch_size,         \* the batch_size argument
    pc,                 \* position of the engine in its loop
    batch_start,        \* the for-loop variable (0-based offset)
    batch,              \* entries[batch_start:batch_start+batch_size]
    batch_texts,        \* the request payload: str(index) -> text
    corrections,        \* the parsed reply (corrections / restorations)
    i,                  \* position of the merge loop inside the batch (1-based)
    corrected_entries,  \* the output list (corrected_entries / restored_entries)
    outstanding,        \* batch offsets whose model request has not returned
    formed,             \* history: the batches formed so far, in order
    ended,              \* history: how the current batch ended ("none": not yet)
    handled,            \* history: number of batches that have ended
    mark,               \* history: len(corrected_entries) when the batch began
    parsed,             \* history: the current batch's reply was parsed by json.loads
    console,            \* the encoding of the console the run prints to
    out_ids,            \* history: which object each entry of the output list
                        \* is; the entries of the input list are objects 1..n
    system_prompt,      \* the system prompt built before the loop
    requests,           \* history: the system prompt of every request made
    rules_file,         \* content of correction_rules.json, or Absent
    returned,           \* the rule set the last add_rule / remove_rule returned
    last_call,          \* the last add_rule / remove_rule call, and the value
                        \* its key had in the rule set it loaded
    content,            \* the text read from the input file
    result,             \* build_srt's text of the output document
    reparsed,           \* parse_srt of result
    step,               \* position in the pipeline, or in parse, build, parse
    input_file,         \* the SRT file at the input path, or Absent
    output_file,        \* the file at the output path, or Absent
    writes              \* history: number of times the output file was written

engine_vars == <<direction, entries, rules, batch_size, pc, batch_start, batch,
                 batch_texts, corrections, i, corrected_entries, outstanding,
                 formed, ended, handled, mark, parsed, system_prompt,
                 requests, console, out_ids>>

rules_vars == <<rules_file, returned, last_call>>

file_vars == <<input_file, output_file, writes>>

io_vars == <<content, result, reparsed, step, input_file, output_file, writes>>

vars == <<direction, entries, rules, batch_size, pc, batch_start, batch,
          batch_texts, corrections, i, corrected_entries, outstanding,
          formed, ended, handled, mark, parsed, system_prompt, requests,
          console, out_ids, rules_file, returned, last_call,
          content, result, reparsed, step, input_file, output_file, writes>>

----------------------------------------------------------------------------
(* Bounds of the model *)

MaxLen == 3         \* longest input document

----------------------------------------------------------------------------
(* Python strings *)

Whitespace == {" ", "\n", "\t"}

DigitChars == <<"0", "1", "2", "3", "4", "5", "6", "7", "8", "9">>

Min(a, b) == IF a < b THEN a ELSE b

\* str(n) for an int
RECURSIVE StrNat(_)
StrNat(n) ==
    IF n < 10 THEN <<DigitChars[n + 1]>>
    ELSE StrNat(n \div 10) \o <<DigitChars[(n % 10) + 1]>>

Str(n) == IF n < 0 THEN <<"-">> \o StrNat(0 - n) ELSE StrNat(n)

\* str.strip(): leading and trailing whitespace removed
RECURSIVE LStrip(_)
LStrip(s) ==
    IF s # <<>> /\ Head(s) \in Whitespace THEN LStrip(Tail(s)) ELSE s

RECURSIVE RStrip(_)
RStrip(s) ==
    IF s # <<>> /\ s[Len(s)] \in Whitespace
    THEN RStrip(SubSeq(s, 1, Len(s) - 1))
    ELSE s

\* variant: the text is tested as it is ("if entry['text']:")
Strip_Omitted(s) == s

Strip(s) == RStrip(LStrip(s))

\* sep.join(lines)
RECURSIVE Join(_, _)
Join(lines, sep) ==
    IF lines = <<>> THEN <<>>
    ELSE IF Len(lines) = 1 THEN lines[1]
    ELSE lines[1] \o sep \o Join(Tail(lines), sep)

\* s[:n]
Prefix(s, n) == SubSeq(s, 1, Min(n, Len(s)))

\* truth value of a str: non-empty
Truthy(s) == s # <<>>

StartsWith(s, old) ==
    /\ Len(old) <= Len(s)
    /\ SubSeq(s, 1, Len(old)) = old

\* str.replace(old, new): non-overlapping occurrences, left to right;
\* an empty old matches before every character and at the end
RECURSIVE ReplaceEmpty(_, _)
ReplaceEmpty(s, new) ==
    IF s = <<>> THEN new
    ELSE new \o <<Head(s)>> \o ReplaceEmpty(Tail(s), new)

RECURSIVE ReplaceAt(_, _, _)
ReplaceAt(s, old, new) ==
    IF s = <<>> THEN <<>>
    ELSE IF StartsWith(s, old)
         THEN new \o ReplaceAt(SubSeq(s, Len(old) + 1, Len(s)), old, new)
         ELSE <<Head(s)>> \o ReplaceAt(Tail(s), old, new)

Replace(s, old, new) ==
    IF old = <<>> THEN ReplaceEmpty(s, new) ELSE ReplaceAt(s, old, new)

----------------------------------------------------------------------------
(* JSON values of a reply: a string, or a value that is not a string       *)
(* (a number or null), on which str methods and slicing raise.             *)

StrVal(s) == [kind |-> "str", s |-> s]
NonStr == [kind |-> "num", s |-> <<>>]
IsStr(v) == v.kind = "str"

\* results of a call that may raise
Ok(v) == [raised |-> FALSE, value |-> v]
Raised == [raised |-> TRUE, value |-> NonStr]

----------------------------------------------------------------------------
(* Rule sets: a function from the field names present to their values.     *)
(* Mapping fields (dicts) are sequences of <<key, value>> in insertion      *)
(* order, sequence fields (lists) are sequences.                           *)

Get(d, field, default) == IF field \in DOMAIN d THEN d[field] ELSE default

\* apply_term_corrections(text, rules)
RECURSIVE ReplaceAll(_, _)
ReplaceAll(s, items) ==
    IF items = <<>> THEN s
    ELSE ReplaceAll(Replace(s, Head(items)[1], Head(items)[2]), Tail(items))

\* variant: the loop returns after the first rule
apply_term_corrections_FirstOnly(text, rs) ==
    LET items == Get(rs, "term_corrections", <<>>)
    IN  IF items = <<>> THEN Ok(text)
        ELSE IF IsStr(text) THEN Ok(StrVal(ReplaceAll(text.s, <<Head(items)>>)))
        ELSE Raised

apply_term_corrections(text, rs) ==
    LET items == Get(rs, "term_corrections", <<>>)
    IN  IF items = <<>> THEN Ok(text)
        ELSE IF IsStr(text) THEN Ok(StrVal(ReplaceAll(text.s, items)))
        ELSE Raised

----------------------------------------------------------------------------
(* Inputs of a run *)

Indexes == {1, 2}                       \* entry indexes (parse_srt keeps repeats)
SomeText == <<"a">>                     \* a non-blank text
Timestamps == <<"00:01", "00:02", "00:03", "00:04", "00:05", "00:06">>
Directions == {"correct", "restore"}
BatchSizes == {1, 2}                    \* batch_size arguments

Entry(ix, ts, tx) == [index |-> ix, timestamp |-> ts, text |-> tx]

\* the text of a blank entry: empty at odd positions, whitespace-only at even
BlankAt(p) == IF p % 2 = 1 THEN <<>> ELSE <<" ">>

\* documents of n entries, each blank or not and with any index; the timestamp
\* line is opaque, here distinct per position
DocsOfLen(n) ==
    { [p \in 1..n |-> Entry(ix[p], Timestamps[p], IF nb[p] THEN SomeText ELSE BlankAt(p))] :
        ix \in [1..n -> Indexes], nb \in [1..n -> BOOLEAN] }

Docs == UNION { DocsOfLen(n) : n \in 0..MaxLen }

\* rule sets handed to the engine: without and with term_corrections
NoTerms == [context_hints |-> <<"hint">>]
WithTerms ==
    [context_hints |-> <<"hint">>,
     term_corrections |-> << <<(<<"x">>), (<<"y">>)>>,
                             <<(<<"y", "1">>), (<<"z">>)>> >>]
EngineRules == {NoTerms, WithTerms}

\* the runs: the restorer never reads term_corrections, it is run with them
IsRun(dir, rs) ==
    \/ dir = "correct" /\ rs \in EngineRules
    \/ dir = "restore" /\ rs = WithTerms

\* replies of the model that parse as a JSON object: any subset of the keys
\* "1" and "2", each value a string or not; a key is the index of an entry of
\* the batch, of an entry of another batch, or of no entry of the document
ReplyKeys == { Str(n) : n \in Indexes }
ReplyValues(k) == {StrVal(<<"x">> \o k), NonStr}
AllReplyValues == UNION { ReplyValues(k) : k \in ReplyKeys }
Replies ==
    UNION { { r \in [K -> AllReplyValues] : \A k \in K : r[k] \in ReplyValues(k) } :
            K \in SUBSET ReplyKeys }

EmptyDict == [k \in {} |-> <<>>]
Put(d, k, v) == [x \in (DOMAIN d) \cup {k} |-> IF x = k THEN v ELSE d[x]]

----------------------------------------------------------------------------
(* The batch transform engine *)

ContextLimit == 3000        \* full_context[:3000]

\* get_full_context(entries): the texts joined by a space
get_full_context(es) == Join([p \in 1..Len(es) |-> es[p].text], <<" ">>)

\* variant: the whole context is embedded
SystemPrompt_WholeContext(dir, es, rs) ==
    [task |-> dir,
     context |-> get_full_context(es),
     context_hints |-> Get(rs, "context_hints", <<>>),
     custom_rules |-> IF dir = "correct" THEN Get(rs, "custom_rules", <<>>)
                      ELSE <<>>,
     reading_examples |-> Get(rs, "reading_examples", <<>>)]

\* the system prompt: the fixed instructions of the direction, with the
\* context and the rule fields the direction embeds (the restorer has no
\* custom rules) in their places
SystemPrompt(dir, es, rs) ==
    [task |-> dir,
     context |-> Prefix(get_full_context(es), ContextLimit),
     context_hints |-> Get(rs, "context_hints", <<>>),
     custom_rules |-> IF dir = "correct" THEN Get(rs, "custom_rules", <<>>)
                      ELSE <<>>,
     reading_examples |-> Get(rs, "reading_examples", <<>>)]

\* variant: the slice takes one entry more (entries[a:b + 1])
Slice_OneMore(seq, a, b) == SubSeq(seq, a + 1, Min(b + 1, Len(seq)))

\* entries[a:b]
Slice(seq, a, b) == SubSeq(seq, a + 1, Min(b, Len(seq)))

\* variant: no copy is made, the entry itself is taken
CopyId_Same(id, fresh) == id

\* the object entry.copy() returns for the object id: a new one
CopyId(id, fresh) == fresh

\* the objects of [e.copy() for e in batch] for a batch of n entries: the
\* batch holds the objects batch_start + 1 .. batch_start + n of the input
CopyIds(n) ==
    [j \in 1..n |-> CopyId(batch_start + j, Len(entries) + Len(out_ids) + j)]

\* entry.copy()
Copy(e) == [index |-> e.index, timestamp |-> e.timestamp, text |-> e.text]

\* [e.copy() for e in batch]
Copies(b) == [j \in 1..Len(b) |-> Copy(b[j])]

\* the loop that fills batch_texts
RECURSIVE BuildBatchTexts(_, _)
BuildBatchTexts(b, acc) ==
    IF b = <<>> THEN acc
    ELSE LET entry == Head(b)
         IN  BuildBatchTexts(Tail(b),
                 IF Truthy(Strip(entry.text))
                 THEN Put(acc, Str(entry.index), entry.text)
                 ELSE acc)

PrintLimit == 50            \* text[:50] in the printout of a change

\* the encodings of the console: utf-8 has every character, cp949 lacks the
\* character written "K" here
Consoles == {"utf-8", "cp949"}
Encodes(enc, s) == enc = "utf-8" \/ \A p \in 1..Len(s) : s[p] # "K"

\* the printout of a changed entry: the old text is sliced and printed, then
\* the new one. A value that is not a string differs from every text and
\* cannot be sliced (TypeError); print raises UnicodeEncodeError on a
\* character the console lacks, which the restorer catches around its
\* printout (srt_restorer.py 99-104) and the corrector does not.
PrintChange(dir, old_text, v) ==
    IF IsStr(v) /\ v.s = old_text THEN Ok(v)
    ELSE IF ~Encodes(console, Prefix(old_text, PrintLimit))
         THEN IF dir = "restore" THEN Ok(v) ELSE Raised
    ELSE IF ~IsStr(v) THEN Raised
    ELSE IF ~Encodes(console, Prefix(v.s, PrintLimit))
         THEN IF dir = "restore" THEN Ok(v) ELSE Raised
    ELSE Ok(v)

\* the text an entry gets from a value: the string, or the value that is none
TextOf(v) == IF IsStr(v) THEN v.s ELSE v

\* variant: every value of the reply is required to be a string before an
\* entry is merged
MergeOne_ChecksWholeReply(dir, entry, reply, rs) ==
    LET idx_str == Str(entry.index)
    IN  IF \E k \in DOMAIN reply : ~IsStr(reply[k]) THEN Raised
        ELSE IF idx_str \in DOMAIN reply
        THEN LET v == reply[idx_str]
                 t == IF dir = "correct" THEN apply_term_corrections(v, rs) ELSE Ok(v)
             IN  Ok([Copy(entry) EXCEPT !.text = t.value.s])
        ELSE Ok(Copy(entry))

\* body of the merge loop for one entry: the new entry, or a raised error.
\* Correction (srt_corrector.py 110-123) passes the value through
\* apply_term_corrections, restoration (srt_restorer.py 91-106) takes it as it
\* is; both then slice a changed value for the printout, and the TypeError of a
\* value that is not a string is not the UnicodeEncodeError the restorer catches.
MergeOne(dir, entry, reply, rs) ==
    LET idx_str == Str(entry.index)
    IN  IF idx_str \in DOMAIN reply
        THEN LET v == reply[idx_str]
                 t == IF dir = "correct" THEN apply_term_corrections(v, rs) ELSE Ok(v)
                 p == IF t.raised THEN Raised
                      ELSE PrintChange(dir, entry.text, t.value)
             IN  IF p.raised THEN Raised
                 ELSE Ok([Copy(entry) EXCEPT !.text = TextOf(p.value)])
        ELSE Ok(Copy(entry))

\* the try block from the merge loop on: entries j.. of the batch are merged
\* after acc; an error raised on the way runs the except branch
RECURSIVE MergeFrom(_, _, _, _, _, _)
MergeFrom(dir, b, j, reply, rs, acc) ==
    IF j > Len(b) THEN [appended |-> acc, outcome |-> "merged"]
    ELSE LET m == MergeOne(dir, b[j], reply, rs)
         IN  IF m.raised
             THEN [appended |-> acc \o Copies(b), outcome |-> "fallback"]
             ELSE MergeFrom(dir, b, j + 1, reply, rs, Append(acc, m.value))

\* variant: the request is made also when the payload is empty
BeginBatch_AlwaysCalls ==
    /\ pc = "loop"
    /\ batch_start < Len(entries)
    /\ LET b == Slice(entries, batch_start, batch_start + batch_size)
           texts == BuildBatchTexts(b, EmptyDict)
       IN  /\ batch' = b
           /\ batch_texts' = texts
           /\ formed' = Append(formed, b)
           /\ mark' = Len(corrected_entries)
           /\ parsed' = FALSE
           /\ corrections' = EmptyDict     \* not assigned yet in this iteration
           /\ i' = 1
           /\ pc' = "await"
           /\ outstanding' = outstanding \cup {batch_start}
           /\ requests' = Append(requests, system_prompt)
           /\ ended' = "none"
           /\ UNCHANGED <<corrected_entries, handled, batch_start>>
    /\ UNCHANGED <<out_ids, console, system_prompt, direction, entries, rules,
                   batch_size>>
    /\ UNCHANGED <<rules_vars, io_vars>>

\* for batch_start in range(...): slice, payload, pass-through or request
BeginBatch ==
    /\ pc = "loop"
    /\ batch_start < Len(entries)
    /\ LET b == Slice(entries, batch_start, batch_start + batch_size)
           texts == BuildBatchTexts(b, EmptyDict)
       IN  /\ batch' = b
           /\ batch_texts' = texts
           /\ formed' = Append(formed, b)
           /\ mark' = Len(corrected_entries)
           /\ parsed' = FALSE
           /\ corrections' = EmptyDict     \* not assigned yet in this iteration
           /\ i' = 1
           /\ IF DOMAIN texts = {}
              THEN /\ corrected_entries' = corrected_entries \o Copies(b)
                   /\ out_ids' = out_ids \o CopyIds(Len(b))
                   /\ ended' = "passthrough"
                   /\ handled' = handled + 1
                   /\ batch_start' = batch_start + batch_size
                   /\ pc' = "loop"
                   /\ UNCHANGED <<outstanding, requests>>
              ELSE /\ pc' = "await"
                   /\ outstanding' = outstanding \cup {batch_start}
                   /\ requests' = Append(requests, system_prompt)
                   /\ ended' = "none"
                   /\ UNCHANGED <<corrected_entries, handled, batch_start,
                                  out_ids>>
    /\ UNCHANGED <<console, system_prompt, direction, entries, rules, batch_size>>
    /\ UNCHANGED <<rules_vars, io_vars>>

\* client.chat.completions.create raises
ModelRaises ==
    /\ pc = "await"
    /\ pc' = "except"
    /\ outstanding' = outstanding \ {batch_start}
    /\ UNCHANGED <<out_ids, console, system_prompt, requests, direction,
                   entries, rules, batch_size, batch_start, batch,
                   batch_texts, corrections, i, corrected_entries, formed,
                   ended, handled, mark, parsed>>
    /\ UNCHANGED <<rules_vars, io_vars>>

\* the call returns a text that json.loads rejects
ModelReturnsMalformed ==
    /\ pc = "await"
    /\ pc' = "except"
    /\ outstanding' = outstanding \ {batch_start}
    /\ UNCHANGED <<out_ids, console, system_prompt, requests, direction,
                   entries, rules, batch_size, batch_start, batch,
                   batch_texts, corrections, i, corrected_entries, formed,
                   ended, handled, mark, parsed>>
    /\ UNCHANGED <<rules_vars, io_vars>>

\* the call returns a JSON object, json.loads yields it
ModelReturns(r) ==
    /\ pc = "await"
    /\ corrections' = r
    /\ i' = 1
    /\ pc' = "merge"
    /\ outstanding' = outstanding \ {batch_start}
    /\ parsed' = TRUE
    /\ UNCHANGED <<out_ids, console, system_prompt, requests, direction,
                   entries, rules, batch_size, batch_start, batch,
                   batch_texts, corrected_entries, formed, ended, handled,
                   mark>>
    /\ UNCHANGED <<rules_vars, io_vars>>

\* one iteration of "for entry in batch"
MergeEntry ==
    /\ pc = "merge"
    /\ i <= Len(batch)
    /\ LET m == MergeOne(direction, batch[i], corrections, rules)
           \* new_entry: the object that is assigned the text and appended
           new_entry == CopyId(batch_start + i, Len(entries) + Len(out_ids) + 1)
       IN  IF m.raised
           THEN /\ pc' = "except"
                /\ UNCHANGED <<corrected_entries, i, out_ids, entries>>
           ELSE /\ corrected_entries' = Append(corrected_entries, m.value)
                /\ out_ids' = Append(out_ids, new_entry)
                /\ entries' = IF new_entry <= Len(entries)
                               THEN [entries EXCEPT ![new_entry] = m.value]
                               ELSE entries
                /\ i' = i + 1
                /\ pc' = "merge"
    /\ UNCHANGED <<console, system_prompt, requests, direction, rules,
                   batch_size, batch_start, batch, batch_texts, corrections,
                   outstanding, formed, ended, handled, mark, parsed>>
    /\ UNCHANGED <<rules_vars, io_vars>>

\* the merge loop is exhausted: progress line, next iteration of the for loop
MergeDone ==
    /\ pc = "merge"
    /\ i > Len(batch)
    /\ ended' = "merged"
    /\ handled' = handled + 1
    /\ batch_start' = batch_start + batch_size
    /\ pc' = "loop"
    /\ UNCHANGED <<out_ids, console, system_prompt, requests, direction,
                   entries, rules, batch_size, batch, batch_texts,
                   corrections, i, corrected_entries, outstanding, formed,
                   mark, parsed>>
    /\ UNCHANGED <<rules_vars, io_vars>>

\* variant: the except branch assigns the copies instead of extending
ExceptHandler_Assigns ==
    /\ pc = "except"
    /\ corrected_entries' = Copies(batch)
    /\ out_ids' = CopyIds(Len(batch))
    /\ ended' = "fallback"
    /\ handled' = handled + 1
    /\ batch_start' = batch_start + batch_size
    /\ pc' = "loop"
    /\ UNCHANGED <<console, system_prompt, requests, direction, entries,
                   rules, batch_size, batch, batch_texts, corrections, i,
                   outstanding, formed, mark, parsed>>
    /\ UNCHANGED <<rules_vars, io_vars>>

\* variant: the except branch logs and raises again
ExceptHandler_Reraises ==
    /\ pc = "except"
    /\ pc' = "raised"
    /\ UNCHANGED <<out_ids, console, system_prompt, requests, direction,
                   entries, rules, batch_size, batch_start, batch,
                   batch_texts, corrections, i, corrected_entries,
                   outstanding, formed, ended, handled, mark, parsed>>
    /\ UNCHANGED <<rules_vars, io_vars>>

\* except Exception: the batch's entries are copied to the output
ExceptHandler ==
    /\ pc = "except"
    /\ corrected_entries' = corrected_entries \o Copies(batch)
    /\ out_ids' = out_ids \o CopyIds(Len(batch))
    /\ ended' = "fallback"
    /\ handled' = handled + 1
    /\ batch_start' = batch_start + batch_size
    /\ pc' = "loop"
    /\ UNCHANGED <<console, system_prompt, requests, direction, entries,
                   rules, batch_size, batch, batch_texts, corrections, i,
                   outstanding, formed, mark, parsed>>
    /\ UNCHANGED <<rules_vars, io_vars>>

\* range exhausted: return corrected_entries
Return ==
    /\ pc = "loop"
    /\ batch_start >= Len(entries)
    /\ pc' = "done"
    /\ UNCHANGED <<out_ids, console, system_prompt, requests, direction,
                   entries, rules, batch_size, batch_start, batch,
                   batch_texts, corrections, i, corrected_entries,
                   outstanding, formed, ended, handled, mark, parsed>>
    /\ UNCHANGED <<rules_vars, io_vars>>

----------------------------------------------------------------------------
(* The record store: parse_srt and build_srt on the text of an SRT file *)

MaxChars == 11      \* longest SRT text given to parse_srt

\* the characters of the texts: a digit, a blank and the newline; a line is
\* an int ("1", " 11 "), or not ("", " ", "1 1")
Alphabet == {"1", " ", "\n"}

Contents == UNION { [1..n -> Alphabet] : n \in 0..MaxChars }

\* int(s) of a line: blanks around the digits are accepted, as is a sign;
\* anything else is a ValueError
DigitValue(c) == CHOOSE d \in 0..9 : DigitChars[d + 1] = c

RECURSIVE NatOf(_)
NatOf(digits) ==
    IF digits = <<>> THEN 0
    ELSE 10 * NatOf(SubSeq(digits, 1, Len(digits) - 1))
         + DigitValue(digits[Len(digits)])

ParseInt(s) ==
    LET t == Strip(s)
        signed == t # <<>> /\ Head(t) \in {"+", "-"}
        body == IF signed THEN Tail(t) ELSE t
        isDigits == body # <<>> /\
                    \A p \in 1..Len(body) :
                       \E d \in 1..Len(DigitChars) : DigitChars[d] = body[p]
    IN  IF ~isDigits THEN Raised
        ELSE IF signed /\ Head(t) = "-" THEN Ok(0 - NatOf(body))
        ELSE Ok(NatOf(body))

\* str.split('\n')
RECURSIVE SplitLines(_, _, _)
SplitLines(s, cur, acc) ==
    IF s = <<>> THEN Append(acc, cur)
    ELSE IF Head(s) = "\n" THEN SplitLines(Tail(s), <<>>, Append(acc, cur))
    ELSE SplitLines(Tail(s), Append(cur, Head(s)), acc)

RECURSIVE SkipNewlines(_)
SkipNewlines(s) ==
    IF s # <<>> /\ Head(s) = "\n" THEN SkipNewlines(Tail(s)) ELSE s

\* re.split(r'\n\n+', s): cut at every run of two or more newlines
RECURSIVE SplitBlocks(_, _, _)
SplitBlocks(s, cur, acc) ==
    IF s = <<>> THEN Append(acc, cur)
    ELSE IF Len(s) >= 2 /\ s[1] = "\n" /\ s[2] = "\n"
    THEN SplitBlocks(SkipNewlines(s), <<>>, Append(acc, cur))
    ELSE SplitBlocks(Tail(s), Append(cur, Head(s)), acc)

\* the loop over the blocks: a block of two lines or more whose first line
\* is an int becomes an entry, any other block is skipped
RECURSIVE ParseBlocks(_, _)
ParseBlocks(blocks, acc) ==
    IF blocks = <<>> THEN acc
    ELSE LET lines == SplitLines(Strip(Head(blocks)), <<>>, <<>>)
             index == ParseInt(lines[1])
         IN  ParseBlocks(Tail(blocks),
                 IF Len(lines) >= 2 /\ ~index.raised
                 THEN Append(acc,
                          Entry(index.value, lines[2],
                                IF Len(lines) > 2
                                THEN Join(SubSeq(lines, 3, Len(lines)), <<"\n">>)
                                ELSE <<>>))
                 ELSE acc)

parse_srt(text) == ParseBlocks(SplitBlocks(Strip(text), <<>>, <<>>), <<>>)

\* the lines build_srt collects: index, timestamp, text and an empty line
RECURSIVE SrtLines(_)
SrtLines(es) ==
    IF es = <<>> THEN <<>>
    ELSE << Str(Head(es).index), Head(es).timestamp, Head(es).text, <<>> >>
         \o SrtLines(Tail(es))

\* variant: the entries are numbered from 1 in place of their own index
build_srt_Renumbers(es) ==
    Join(SrtLines([p \in 1..Len(es) |-> [es[p] EXCEPT !.index = p]]), <<"\n">>)

build_srt(es) == Join(SrtLines(es), <<"\n">>)

----------------------------------------------------------------------------
(* The rule file: load_rules, save_rules, add_rule, remove_rule.           *)
(* A rule set is a function from the names of the fields it has to their   *)
(* values; a list is a sequence, a dict a sequence of <<key, value>> in    *)
(* insertion order. Keys, hints and values are opaque strings here.        *)

Kinds == {"term", "hint", "custom", "reading"}

\* the field a kind of rule lives in
FieldOf(kind) ==
    CASE kind = "term" -> "term_corrections"
      [] kind = "hint" -> "context_hints"
      [] kind = "custom" -> "custom_rules"
      [] kind = "reading" -> "reading_examples"

\* the built-in rule set load_rules returns when there is no file
DefaultRules ==
    [context_hints |-> <<"hint_rag", "hint_ai">>,
     custom_rules |-> <<"rule_numbers", "rule_kanji">>,
     reading_examples |-> << <<"42", "yonjuuni">>, <<"7th", "nanoka">>,
                             <<"1person", "hitori">> >>]

\* key in list
InList(seq, x) == \E p \in 1..Len(seq) : seq[p] = x

\* list.remove(x): the first occurrence goes
RECURSIVE ListRemove(_, _)
ListRemove(seq, x) ==
    IF seq = <<>> THEN <<>>
    ELSE IF Head(seq) = x THEN Tail(seq)
    ELSE <<Head(seq)>> \o ListRemove(Tail(seq), x)

\* key in dict
HasKey(items, k) == \E p \in 1..Len(items) : items[p][1] = k

\* variant: dict.setdefault(k, v), the value of an existing key is kept
SetItem_KeepsFirst(items, k, v) ==
    IF HasKey(items, k) THEN items ELSE Append(items, <<k, v>>)

\* dict.get(k): the value of the key, None ("none") when it has none
GetItem(items, k) ==
    IF HasKey(items, k)
    THEN (CHOOSE pair \in { items[p] : p \in 1..Len(items) } : pair[1] = k)[2]
    ELSE "none"

\* dict[k] = v: the value of an existing key is replaced in place, a new key
\* is added at the end
SetItem(items, k, v) ==
    IF HasKey(items, k)
    THEN [p \in 1..Len(items) |-> IF items[p][1] = k THEN <<k, v>> ELSE items[p]]
    ELSE Append(items, <<k, v>>)

\* del dict[k]
RECURSIVE DelItem(_, _)
DelItem(items, k) ==
    IF items = <<>> THEN <<>>
    ELSE IF Head(items)[1] = k THEN Tail(items)
    ELSE <<Head(items)>> \o DelItem(Tail(items), k)

\* the file written by json.dump, read back by json.load: objects with string
\* keys, arrays, strings and null come back as equal dicts, lists, str and None
Absent == [exists |-> FALSE]
JsonFile(rs) == [exists |-> TRUE, doc |-> rs]

load_rules(file) == IF file.exists THEN file.doc ELSE DefaultRules

\* variant: a partial write that leaves out the fields that are empty
save_rules_SkipsEmpty(rs) ==
    JsonFile([f \in {g \in DOMAIN rs : rs[g] # <<>>} |-> rs[f]])

\* json.dump of the whole rule set over the file
save_rules(rs) == JsonFile(rs)

\* variant: a hint or custom rule is appended without the membership test
Added_AlwaysAppends(rs, kind, key, value) ==
    LET f == FieldOf(kind)
    IN  IF kind \in {"term", "reading"}
        THEN Put(rs, f, SetItem(Get(rs, f, <<>>), key, value))
        ELSE Put(rs, f, Append(Get(rs, f, <<>>), key))

\* the rule set add_rule makes of the loaded one
Added(rs, kind, key, value) ==
    LET f == FieldOf(kind)
    IN  IF kind \in {"term", "reading"}
        THEN Put(rs, f, SetItem(Get(rs, f, <<>>), key, value))
        ELSE IF ~InList(Get(rs, f, <<>>), key)
             THEN Put(rs, f, Append(Get(rs, f, <<>>), key))
             ELSE rs

\* variant: the field is written back without the membership test, which
\* creates it when it is absent
Removed_CreatesField(rs, kind, key) ==
    LET f == FieldOf(kind)
    IN  IF kind \in {"term", "reading"}
        THEN Put(rs, f, DelItem(Get(rs, f, <<>>), key))
        ELSE Put(rs, f, ListRemove(Get(rs, f, <<>>), key))

\* the rule set remove_rule makes of the loaded one
Removed(rs, kind, key) ==
    LET f == FieldOf(kind)
    IN  IF kind \in {"term", "reading"}
        THEN IF HasKey(Get(rs, f, <<>>), key)
             THEN Put(rs, f, DelItem(rs[f], key))
             ELSE rs
        ELSE IF InList(Get(rs, f, <<>>), key)
             THEN Put(rs, f, ListRemove(rs[f], key))
             ELSE rs

\* the same call as the one before
Again(op, kind, key) ==
    last_call.op = op /\ last_call.kind = kind /\ last_call.key = key

\* add_rule(rule_type, key, value)
add_rule(kind, key, value) ==
    LET rs == Added(load_rules(rules_file), kind, key, value)
    IN  /\ rules_file' = save_rules(rs)
        /\ returned' = rs
        /\ last_call' = [op |-> "add", kind |-> kind, key |-> key,
                         again |-> Again("add", kind, key),
                         value |-> IF kind \in {"term", "reading"}
                                   THEN value ELSE "none",
                         replaced |-> IF kind \in {"term", "reading"}
                                      THEN GetItem(Get(load_rules(rules_file),
                                                       FieldOf(kind), <<>>), key)
                                      ELSE "none"]
        /\ UNCHANGED <<engine_vars, io_vars>>

\* remove_rule(rule_type, key)
remove_rule(kind, key) ==
    LET rs == Removed(load_rules(rules_file), kind, key)
    IN  /\ rules_file' = save_rules(rs)
        /\ returned' = rs
        /\ last_call' = [op |-> "remove", kind |-> kind, key |-> key,
                         again |-> Again("remove", kind, key),
                         value |-> "none", replaced |-> "none"]
        /\ UNCHANGED <<engine_vars, io_vars>>

\* keys and values of the calls: a new key for a term, a hint and a custom
\* rule, one of the built-in defaults for a hint, a custom rule and a reading
KeysOf(kind) ==
    CASE kind = "term" -> {"k1"}
      [] kind = "hint" -> {"k1", "hint_rag"}
      [] kind = "custom" -> {"k1", "rule_numbers"}
      [] kind = "reading" -> {"42"}
Values == {"v1", "v2"}

\* rule files found at the start: none, an empty object, one with all fields
EmptyRules == [f \in {} |-> <<>>]
FullRules ==
    [term_corrections |-> << <<"k2", "v1">> >>,
     context_hints |-> <<"hint_rag">>,
     custom_rules |-> <<"k1">>,
     reading_examples |-> << <<"42", "yonjuuni">> >>]
RuleFiles == {Absent, JsonFile(EmptyRules), JsonFile(FullRules)}

\* nothing read, built or parsed
IoIdle ==
    /\ content = <<>>
    /\ result = <<>>
    /\ reparsed = <<>>
    /\ step = "none"
    /\ input_file = Absent
    /\ output_file = Absent
    /\ writes = 0

NoCall ==
    [op |-> "none", kind |-> "none", key |-> "none", again |-> FALSE,
     value |-> "none", replaced |-> "none"]

RulesInit ==
    /\ rules_file \in RuleFiles
    /\ returned = EmptyRules
    /\ last_call = NoCall
    /\ direction = "correct"
    /\ entries = <<>>
    /\ rules = NoTerms
    /\ batch_size = 1
    /\ pc = "loop"
    /\ batch_start = 0
    /\ batch = <<>>
    /\ batch_texts = EmptyDict
    /\ corrections = EmptyDict
    /\ i = 1
    /\ corrected_entries = <<>>
    /\ outstanding = {}
    /\ formed = <<>>
    /\ ended = "none"
    /\ handled = 0
    /\ mark = 0
    /\ parsed = FALSE
    /\ system_prompt = SystemPrompt(direction, entries, rules)
    /\ requests = <<>>
    /\ out_ids = <<>>
    /\ console = "utf-8"
    /\ IoIdle

RulesNext ==
    \/ \E kind \in Kinds : \E key \in KeysOf(kind) : \E value \in Values :
          add_rule(kind, key, value)
    \/ \E kind \in Kinds : \E key \in KeysOf(kind) : remove_rule(kind, key)

RulesSpec == RulesInit /\ [][RulesNext]_vars

----------------------------------------------------------------------------
(* The specifications *)

Init ==
    /\ direction \in Directions
    /\ rules \in EngineRules
    /\ IsRun(direction, rules)
    /\ entries \in Docs
    /\ batch_size \in BatchSizes
    /\ pc = "loop"
    /\ batch_start = 0
    /\ batch = <<>>
    /\ batch_texts = EmptyDict
    /\ corrections = EmptyDict
    /\ i = 1
    /\ corrected_entries = <<>>
    /\ outstanding = {}
    /\ formed = <<>>
    /\ ended = "none"
    /\ handled = 0
    /\ mark = 0
    /\ parsed = FALSE
    /\ system_prompt = SystemPrompt(direction, entries, rules)
    /\ requests = <<>>
    /\ out_ids = <<>>
    /\ console = "utf-8"
    /\ rules_file = Absent
    /\ returned = EmptyRules
    /\ last_call = NoCall
    /\ IoIdle

Next ==
    \/ BeginBatch
    \/ ModelRaises
    \/ ModelReturnsMalformed
    \/ \E r \in Replies : ModelReturns(r)
    \/ MergeEntry
    \/ MergeDone
    \/ ExceptHandler
    \/ Return

Spec == Init /\ [][Next]_vars

FairSpec == Spec /\ WF_vars(Next)

\* documents whose full context is shorter than, as long as and longer than
\* the part of it the prompt embeds: two entries of texts of these lengths
LongLengths == {0, ContextLimit \div 2, ContextLimit - 1, ContextLimit}
Repeat(c, n) == [p \in 1..n |-> c]
LongDocs ==
    { << Entry(1, Timestamps[1], Repeat("a", n1)),
         Entry(2, Timestamps[2], Repeat("b", n2)) >> :
        n1 \in LongLengths, n2 \in LongLengths }

\* a run of the engine on a long document
LongInit ==
    /\ direction \in Directions
    /\ rules = WithTerms
    /\ entries \in LongDocs
    /\ batch_size \in BatchSizes
    /\ pc = "loop"
    /\ batch_start = 0
    /\ batch = <<>>
    /\ batch_texts = EmptyDict
    /\ corrections = EmptyDict
    /\ i = 1
    /\ corrected_entries = <<>>
    /\ outstanding = {}
    /\ formed = <<>>
    /\ ended = "none"
    /\ handled = 0
    /\ mark = 0
    /\ parsed = FALSE
    /\ system_prompt = SystemPrompt(direction, entries, rules)
    /\ requests = <<>>
    /\ out_ids = <<>>
    /\ console = "utf-8"
    /\ rules_file = Absent
    /\ returned = EmptyRules
    /\ last_call = NoCall
    /\ IoIdle

LongSpec == LongInit /\ [][Next]_vars

\* replies whose values are a string the corrector's terms apply to, a
\* string with a character that cp949 lacks, or no string
KanjiValues(k) == {StrVal(<<"x">> \o k), StrVal(<<"K">>), NonStr}
KanjiReplies ==
    UNION { { r \in [K -> UNION { KanjiValues(k) : k \in ReplyKeys }] :
                \A k \in K : r[k] \in KanjiValues(k) } :
            K \in SUBSET ReplyKeys }

\* a run of the engine that prints to either console, on a document of the
\* shortest lengths that make a batch of two
ConsoleInit ==
    /\ direction \in Directions
    /\ rules \in EngineRules
    /\ entries \in DocsOfLen(1) \cup DocsOfLen(2)
    /\ batch_size \in BatchSizes
    /\ console \in Consoles
    /\ pc = "loop"
    /\ batch_start = 0
    /\ batch = <<>>
    /\ batch_texts = EmptyDict
    /\ corrections = EmptyDict
    /\ i = 1
    /\ corrected_entries = <<>>
    /\ outstanding = {}
    /\ formed = <<>>
    /\ ended = "none"
    /\ handled = 0
    /\ mark = 0
    /\ parsed = FALSE
    /\ system_prompt = SystemPrompt(direction, entries, rules)
    /\ requests = <<>>
    /\ out_ids = <<>>
    /\ rules_file = Absent
    /\ returned = EmptyRules
    /\ last_call = NoCall
    /\ IoIdle

ConsoleNext ==
    \/ BeginBatch
    \/ ModelRaises
    \/ ModelReturnsMalformed
    \/ \E r \in KanjiReplies : ModelReturns(r)
    \/ MergeEntry
    \/ MergeDone
    \/ ExceptHandler
    \/ Return

ConsoleSpec == ConsoleInit /\ [][ConsoleNext]_vars

\* the engine's variables other than the document
run_vars == <<direction, rules, batch_size, pc, batch_start, batch,
              batch_texts, corrections, i, corrected_entries, outstanding,
              formed, ended, handled, mark, parsed, system_prompt,
              requests, console, out_ids>>

\* entries = parse_srt(content)
ParseSrt ==
    /\ step = "read"
    /\ entries' = parse_srt(content)
    /\ step' = "parsed"
    /\ UNCHANGED <<content, result, reparsed, run_vars, rules_vars,
                   file_vars>>

\* result = build_srt(entries)
BuildSrt ==
    /\ step = "parsed"
    /\ result' = build_srt(entries)
    /\ step' = "built"
    /\ UNCHANGED <<content, reparsed, entries, run_vars, rules_vars,
                   file_vars>>

\* parse_srt(result)
ParseAgain ==
    /\ step = "built"
    /\ reparsed' = parse_srt(result)
    /\ step' = "reparsed"
    /\ UNCHANGED <<content, result, entries, run_vars, rules_vars,
                   file_vars>>

ParseInit ==
    /\ content \in Contents
    /\ step = "read"
    /\ input_file = Absent
    /\ output_file = Absent
    /\ writes = 0
    /\ result = <<>>
    /\ reparsed = <<>>
    /\ entries = <<>>
    /\ direction = "correct"
    /\ rules = NoTerms
    /\ batch_size = 1
    /\ pc = "loop"
    /\ batch_start = 0
    /\ batch = <<>>
    /\ batch_texts = EmptyDict
    /\ corrections = EmptyDict
    /\ i = 1
    /\ corrected_entries = <<>>
    /\ outstanding = {}
    /\ formed = <<>>
    /\ ended = "none"
    /\ handled = 0
    /\ mark = 0
    /\ parsed = FALSE
    /\ system_prompt = SystemPrompt(direction, entries, rules)
    /\ requests = <<>>
    /\ out_ids = <<>>
    /\ console = "utf-8"
    /\ rules_file = Absent
    /\ returned = EmptyRules
    /\ last_call = NoCall

ParseNext == ParseSrt \/ BuildSrt \/ ParseAgain

ParseSpec == ParseInit /\ [][ParseNext]_vars

----------------------------------------------------------------------------
(* The commands: correct_srt_file / restore_srt_file on one input file,    *)
(* and the rule commands that may be given before it.                      *)

TextFile(text) == [exists |-> TRUE, doc |-> text]

\* input files: SRT texts of up to two entries, some with an empty text
PipeDocs ==
    UNION { { [p \in 1..n |-> Entry(p, <<"1">>, IF nb[p] THEN <<"1">> ELSE <<>>)] :
                nb \in [1..n -> BOOLEAN] } : n \in 0..2 }
InputFiles == {Absent} \cup { TextFile(build_srt(d)) : d \in PipeDocs }

\* the output path holds no file, or one of an earlier run
OutputFiles == {Absent, TextFile(<<"1">>)}

\* with open(input_path, "r") as f: content = f.read()
ReadInput ==
    /\ step = "start"
    /\ IF input_file.exists
       THEN /\ content' = input_file.doc
            /\ step' = "read"
       ELSE /\ step' = "raised"
            /\ UNCHANGED content
    /\ UNCHANGED <<result, reparsed, file_vars, engine_vars, rules_vars>>

\* variant: the output file is opened for writing before the engine runs
StartEngine_OpensOutput ==
    /\ step = "parsed"
    /\ pc = "idle"
    /\ rules' = load_rules(rules_file)
    /\ system_prompt' = SystemPrompt(direction, entries, load_rules(rules_file))
    /\ pc' = "loop"
    /\ step' = "run"
    /\ output_file' = TextFile(<<>>)
    /\ writes' = writes + 1
    /\ UNCHANGED <<direction, entries, batch_size, batch_start, batch,
                   batch_texts, corrections, i, corrected_entries, outstanding,
                   formed, ended, handled, mark, parsed, requests, console,
                   out_ids>>
    /\ UNCHANGED <<content, result, reparsed, input_file, rules_vars>>

\* rules = load_rules(), then the engine is entered: its prompt is built and
\* its loop begins
StartEngine ==
    /\ step = "parsed"
    /\ pc = "idle"
    /\ rules' = load_rules(rules_file)
    /\ system_prompt' = SystemPrompt(direction, entries, load_rules(rules_file))
    /\ pc' = "loop"
    /\ step' = "run"
    /\ UNCHANGED <<direction, entries, batch_size, batch_start, batch,
                   batch_texts, corrections, i, corrected_entries, outstanding,
                   formed, ended, handled, mark, parsed, requests, console,
                   out_ids>>
    /\ UNCHANGED <<content, result, reparsed, file_vars, rules_vars>>

\* result = build_srt(...); with open(output_path, "w") as f: f.write(result)
WriteOutput ==
    /\ step = "run"
    /\ pc = "done"
    /\ result' = build_srt(corrected_entries)
    /\ output_file' = TextFile(build_srt(corrected_entries))
    /\ writes' = writes + 1
    /\ step' = "returned"
    /\ UNCHANGED <<content, reparsed, input_file, engine_vars, rules_vars>>

\* open(output_path, "w") raises: the path cannot be written
WriteRaises ==
    /\ step = "run"
    /\ pc = "done"
    /\ result' = build_srt(corrected_entries)
    /\ step' = "raised"
    /\ UNCHANGED <<content, reparsed, file_vars, engine_vars, rules_vars>>

\* variant: the loaded rules are saved before they are printed
list_rules_SavesLoaded ==
    /\ returned' = load_rules(rules_file)
    /\ last_call' = [op |-> "list", kind |-> "none", key |-> "none",
                     again |-> FALSE, value |-> "none", replaced |-> "none"]
    /\ rules_file' = save_rules(load_rules(rules_file))
    /\ UNCHANGED <<engine_vars, io_vars>>

\* list_rules(): the rules are loaded and printed
list_rules ==
    /\ returned' = load_rules(rules_file)
    /\ last_call' = [op |-> "list", kind |-> "none", key |-> "none",
                     again |-> FALSE, value |-> "none", replaced |-> "none"]
    /\ UNCHANGED rules_file
    /\ UNCHANGED <<engine_vars, io_vars>>

CliInit ==
    /\ direction \in Directions
    /\ batch_size \in BatchSizes
    /\ input_file \in InputFiles
    /\ output_file \in OutputFiles
    /\ rules_file \in {Absent, JsonFile(WithTerms)}
    /\ writes = 0
    /\ step = "start"
    /\ content = <<>>
    /\ result = <<>>
    /\ reparsed = <<>>
    /\ entries = <<>>
    /\ rules = EmptyRules
    /\ pc = "idle"
    /\ batch_start = 0
    /\ batch = <<>>
    /\ batch_texts = EmptyDict
    /\ corrections = EmptyDict
    /\ i = 1
    /\ corrected_entries = <<>>
    /\ outstanding = {}
    /\ formed = <<>>
    /\ ended = "none"
    /\ handled = 0
    /\ mark = 0
    /\ parsed = FALSE
    /\ system_prompt = SystemPrompt(direction, <<>>, EmptyRules)
    /\ requests = <<>>
    /\ out_ids = <<>>
    /\ console = "utf-8"
    /\ returned = EmptyRules
    /\ last_call = NoCall

CliNext ==
    \/ step = "start" /\ list_rules
    \/ step = "start" /\ add_rule("hint", "k1", "none")
    \/ step = "start" /\ remove_rule("hint", "k1")
    \/ ReadInput
    \/ ParseSrt
    \/ StartEngine
    \/ BeginBatch
    \/ ModelRaises
    \/ ModelReturnsMalformed
    \/ \E r \in Replies : ModelReturns(r)
    \/ MergeEntry
    \/ MergeDone
    \/ ExceptHandler
    \/ Return
    \/ WriteOutput
    \/ WriteRaises

CliSpec == CliInit /\ [][CliNext]_vars

----------------------------------------------------------------------------
(* A command on an input file whose blocks repeat an index: the file is    *)
(* read and parsed, and the engine runs on what parse_srt returns.         *)

\* the timestamp line and the text of the block at each position of the file
DupStamps == << <<"t", "1">>, <<"t", "2">>, <<"t", "3">> >>
DupTexts == << <<"a">>, <<"b">>, <<"c">> >>

\* files of two or three blocks, every block with a non-blank text of its
\* own and any index, so that most files repeat one
DupDocs ==
    UNION { { [p \in 1..n |-> Entry(ix[p], DupStamps[p], DupTexts[p])] :
                ix \in [1..n -> Indexes] } : n \in 2..3 }
DupFiles == { TextFile(build_srt(d)) : d \in DupDocs }

\* batch_size arguments that put two or three blocks in one batch
DupBatchSizes == {2, 3}

DupInit ==
    /\ direction \in Directions
    /\ batch_size \in DupBatchSizes
    /\ input_file \in DupFiles
    /\ output_file = Absent
    /\ rules_file \in {Absent, JsonFile(WithTerms)}
    /\ writes = 0
    /\ step = "start"
    /\ content = <<>>
    /\ result = <<>>
    /\ reparsed = <<>>
    /\ entries = <<>>
    /\ rules = EmptyRules
    /\ pc = "idle"
    /\ batch_start = 0
    /\ batch = <<>>
    /\ batch_texts = EmptyDict
    /\ corrections = EmptyDict
    /\ i = 1
    /\ corrected_entries = <<>>
    /\ outstanding = {}
    /\ formed = <<>>
    /\ ended = "none"
    /\ handled = 0
    /\ mark = 0
    /\ parsed = FALSE
    /\ system_prompt = SystemPrompt(direction, <<>>, EmptyRules)
    /\ requests = <<>>
    /\ out_ids = <<>>
    /\ console = "utf-8"
    /\ returned = EmptyRules
    /\ last_call = NoCall

DupNext ==
    \/ ReadInput
    \/ ParseSrt
    \/ StartEngine
    \/ BeginBatch
    \/ ModelRaises
    \/ ModelReturnsMalformed
    \/ \E r \in Replies : ModelReturns(r)
    \/ MergeEntry
    \/ MergeDone
    \/ ExceptHandler
    \/ Return

DupSpec == DupInit /\ [][DupNext]_vars

----------------------------------------------------------------------------
(* Vocabulary of the properties *)

Last(seq) == seq[Len(seq)]

IsPrefix(a, b) == Len(a) <= Len(b) /\ SubSeq(b, 1, Len(a)) = a

\* a text with a character that is not whitespace
NonBlank(text) == \E p \in 1..Len(text) : text[p] \notin Whitespace
Blank(text) == ~NonBlank(text)

\* the batch that was handled last has ended, and how
BatchEnded == pc \in {"loop", "done"} /\ handled > 0
EndedAs(tag) == BatchEnded /\ ended = tag

\* what the batch handled last has appended to the output
Appended == SubSeq(corrected_entries, mark + 1, Len(corrected_entries))

\* ceil(n / b)
CeilDiv(n, b) == (n + b - 1) \div b

\* the string indexes of the entries of the batch
OwnKeys == { Str(batch[j].index) : j \in 1..Len(batch) }

\* the reply without the keys outside K
Restrict(reply, K) == [k \in (DOMAIN reply) \cap K |-> reply[k]]

----------------------------------------------------------------------------
(* C1: at the return of the engine the output has as many entries as the   *)
(* input, and the i-th output entry has the index and the timestamp of the *)
(* i-th input entry, whatever the outcome of each batch's model call.      *)
C1_CountAndOrderPreserved ==
    pc = "done" =>
        /\ Len(corrected_entries) = Len(entries)
        /\ \A p \in 1..Len(entries) :
              /\ corrected_entries[p].index = entries[p].index
              /\ corrected_entries[p].timestamp = entries[p].timestamp

(* C2: when the handling of a batch fails (model call, parsing or merge,   *)
(* also after some of its entries were merged), what the batch has added   *)
(* to the output is its own entries, once each, with their input text.     *)
C2_FailedBatchCopiedOnce ==
    EndedAs("fallback") => Appended = batch

(* C3: an entry whose input text is empty or whitespace-only leaves a      *)
(* merged batch with its input text, also when the reply holds its index.  *)
C3_BlankEntriesUnchanged ==
    EndedAs("merged") =>
        \A j \in 1..Len(batch) :
            Blank(batch[j].text) => Appended[j].text = batch[j].text

----------------------------------------------------------------------------
\* positions of the batch whose entry is non-blank and has the key k
Senders(k) ==
    { j \in 1..Len(batch) : NonBlank(batch[j].text) /\ Str(batch[j].index) = k }

\* the largest element of a non-empty set of positions
Latest(S) == CHOOSE j \in S : \A q \in S : q <= j

(* C4 as stated: while a request is outstanding, its payload holds the     *)
(* index of no entry of the batch whose text is empty or whitespace-only.  *)
C4_NoBlankIndexInPayload ==
    pc = "await" =>
        \A j \in 1..Len(batch) :
            Blank(batch[j].text) => Str(batch[j].index) \notin DOMAIN batch_texts

(* C4 amended: while a request is outstanding, the keys of its payload are *)
(* exactly the string indexes of the batch's non-blank entries, each key   *)
(* carries the text of the last non-blank entry of the batch with that     *)
(* index, and the index of a blank entry is a key only when a non-blank    *)
(* entry of the same batch shares that index.                              *)
C4_PayloadIsNonBlankEntries ==
    pc = "await" =>
        /\ DOMAIN batch_texts =
              { Str(batch[j].index) : j \in { q \in 1..Len(batch) : NonBlank(batch[q].text) } }
        /\ \A k \in DOMAIN batch_texts :
              batch_texts[k] = batch[Latest(Senders(k))].text
        /\ \A j \in 1..Len(batch) :
              (Blank(batch[j].text) /\ Str(batch[j].index) \in DOMAIN batch_texts)
                  => Senders(Str(batch[j].index)) # {}

\* a request is outstanding for a batch that mixes blank and non-blank entries
C4_Witness ==
    /\ pc = "await"
    /\ \E j \in 1..Len(batch) : batch[j].text = <<" ">>
    /\ \E j \in 1..Len(batch) : batch[j].text = SomeText
    /\ Cardinality(OwnKeys) = 2

----------------------------------------------------------------------------
\* the text the term corrections of WithTerms make of the reply text of key k:
\* "x1" becomes "y1" and then "z", "x2" becomes "y2"
Substituted(k) == IF k = Str(1) THEN <<"z">> ELSE <<"y">> \o k

\* the value an entry with key k is to take from the reply
TakenFromReply(k) ==
    IF direction = "correct" /\ rules = WithTerms /\ IsStr(corrections[k])
    THEN StrVal(Substituted(k))
    ELSE corrections[k]

\* the merge rule of C5 on what the batch has appended
MergeRuleHolds ==
    /\ Len(Appended) = Len(batch)
    /\ \A j \in 1..Len(batch) :
          LET k == Str(batch[j].index)
          IN  /\ (NonBlank(batch[j].text) /\ k \in DOMAIN corrections)
                     => StrVal(Appended[j].text) = TakenFromReply(k)
              /\ k \notin DOMAIN corrections
                     => Appended[j].text = batch[j].text

----------------------------------------------------------------------------
(* C6: a reply key that is the string index of no entry of the batch (the  *)
(* index of an entry of another batch included) changes nothing: the batch *)
(* ends the same way, and appends the same entries, as it does on the      *)
(* reply without those keys.                                               *)
C6_ExtraKeysIgnored ==
    (BatchEnded /\ parsed) =>
        LET own == MergeFrom(direction, batch, 1, Restrict(corrections, OwnKeys), rules, <<>>)
        IN  /\ Appended = own.appended
            /\ ended = own.outcome

\* a batch was merged on a reply that holds the index of an entry of another
\* batch, with a value that is not a string
C6_Witness ==
    /\ EndedAs("merged")
    /\ \E k \in (DOMAIN corrections) \ OwnKeys :
          /\ corrections[k] = NonStr
          /\ \E p \in 1..Len(entries) : Str(entries[p].index) = k
    /\ \E j \in 1..Len(batch) : Appended[j].text # batch[j].text

----------------------------------------------------------------------------
\* the k-th consecutive slice of at most b entries
Chunk(k) ==
    [j \in 1..Min(batch_size, Len(entries) - (k - 1) * batch_size)
        |-> entries[(k - 1) * batch_size + j]]

RECURSIVE Concat(_)
Concat(seqs) == IF seqs = <<>> THEN <<>> ELSE Head(seqs) \o Concat(Tail(seqs))

(* C7: the batches formed are the consecutive slices of the document in    *)
(* order, each of exactly batch_size entries but the last, which holds     *)
(* between 1 and batch_size; at the return there are ceil(n / batch_size)  *)
(* of them and together they are the document.                             *)
C7_BatchPartition ==
    /\ \A k \in 1..Len(formed) :
          /\ formed[k] = Chunk(k)
          /\ Len(formed[k]) >= 1
          /\ Len(formed[k]) <= batch_size
          /\ k < Len(formed) => Len(formed[k]) = batch_size
    /\ Len(formed) <= CeilDiv(Len(entries), batch_size)
    /\ pc = "done" =>
          /\ Len(formed) = CeilDiv(Len(entries), batch_size)
          /\ Concat(formed) = entries

\* a run has returned after a full batch and a shorter last batch
C7_Witness ==
    /\ pc = "done"
    /\ Len(formed) = 2
    /\ Len(formed[1]) = batch_size
    /\ Len(formed[2]) < batch_size

----------------------------------------------------------------------------
\* every entry of the k-th batch formed is in the output
InOutput(k) ==
    \A j \in 1..Len(formed[k]) :
        \E p \in 1..Len(corrected_entries) :
            /\ corrected_entries[p].index = formed[k][j].index
            /\ corrected_entries[p].timestamp = formed[k][j].timestamp

(* C8: at most one request is outstanding; while the request of a batch is *)
(* outstanding every earlier batch, in document order, has ended and its   *)
(* entries are in the output; and the output is only ever appended to.     *)
C8_StrictlySequential ==
    /\ [](/\ Cardinality(outstanding) <= 1
          /\ pc = "await" =>
                /\ outstanding = {batch_start}
                /\ batch_start = (Len(formed) - 1) * batch_size
                /\ handled = Len(formed) - 1
                /\ \A k \in 1..(Len(formed) - 1) : InOutput(k)
          /\ pc # "await" => outstanding = {})
    /\ [][IsPrefix(corrected_entries, corrected_entries')]_vars

\* the request of a later batch is outstanding after a batch that failed
\* while it was merged (the output holds more than the entries before the batch)
C8_Witness ==
    /\ pc = "await"
    /\ Len(formed) >= 2
    /\ Len(corrected_entries) > batch_start

----------------------------------------------------------------------------
(* C9: under FairSpec (every model call returns or raises, the engine      *)
(* keeps running) the engine eventually returns with every batch handled;  *)
(* until then it is at a position of its loop, so no error has escaped.    *)
C9_RunCompletes ==
    /\ <>(/\ pc = "done"
          /\ handled = CeilDiv(Len(entries), batch_size)
          /\ Len(corrected_entries) >= Len(entries))
    /\ [](pc \in {"loop", "await", "merge", "except", "done"})

\* a run has returned with its last batch merged although an earlier batch
\* failed while it was merged (the output holds more entries than the input)
C9_Witness ==
    /\ pc = "done"
    /\ handled >= 2
    /\ Len(corrected_entries) > Len(entries)
    /\ ended = "merged"

----------------------------------------------------------------------------
NoDup(seq) == \A a, b \in 1..Len(seq) : a # b => seq[a] # seq[b]

Count(seq, x) == Cardinality({ p \in 1..Len(seq) : seq[p] = x })

\* the list of a kind in a rule set (empty when the field is absent)
ListOf(rs, kind) == Get(rs, FieldOf(kind), <<>>)

(* C10 (RulesSpec): from a rule file whose context_hints and custom_rules  *)
(* hold no duplicates, after any add_rule / remove_rule calls they hold    *)
(* none, in the file and in the returned rule set; after add_rule("hint"   *)
(* or "custom", key), also a repeated one, the key occurs exactly once,    *)
(* and after remove_rule of such a key it does not occur.                  *)
C10_SetLikeSequences ==
    /\ rules_file.exists =>
          /\ NoDup(ListOf(rules_file.doc, "hint"))
          /\ NoDup(ListOf(rules_file.doc, "custom"))
    /\ \A kind \in {"hint", "custom"} :
          /\ (last_call.op = "add" /\ last_call.kind = kind) =>
                /\ Count(ListOf(rules_file.doc, kind), last_call.key) = 1
                /\ Count(ListOf(returned, kind), last_call.key) = 1
          /\ (last_call.op = "remove" /\ last_call.kind = kind) =>
                /\ Count(ListOf(rules_file.doc, kind), last_call.key) = 0
                /\ Count(ListOf(returned, kind), last_call.key) = 0

\* add_rule("hint", "k1") was called twice in a row on the default rules
C10_Witness ==
    /\ last_call.op = "add"
    /\ last_call.kind = "hint"
    /\ last_call.key = "k1"
    /\ last_call.again
    /\ ListOf(rules_file.doc, "hint") = <<"hint_rag", "hint_ai", "k1">>

\* the rule set holds the key for the kind
HoldsKey(rs, kind, key) ==
    IF kind \in {"term", "reading"}
    THEN HasKey(ListOf(rs, kind), key)
    ELSE InList(ListOf(rs, kind), key)

(* C11 (RulesSpec): a remove_rule(kind, key) whose key the loaded rule set *)
(* does not hold for that kind (the whole field may be absent, and so may  *)
(* the file) returns the rule set load_rules gave before the call, and a   *)
(* load_rules after the call gives that rule set too.                      *)
C11_RemoveAbsentIsNoOp ==
    [][\A kind \in Kinds : \A key \in KeysOf(kind) :
          (remove_rule(kind, key) /\ ~HoldsKey(load_rules(rules_file), kind, key))
             => /\ returned' = load_rules(rules_file)
                /\ load_rules(rules_file') = load_rules(rules_file)]_vars

\* remove_rule("term", "k1") was called on a rule file that is an empty
\* object: the field term_corrections is absent before and after
C11_Witness ==
    /\ last_call.op = "remove"
    /\ last_call.kind = "term"
    /\ last_call.key = "k1"
    /\ returned = EmptyRules
    /\ rules_file = JsonFile(EmptyRules)

(* C12 (RulesSpec): right after every add_rule / remove_rule call the rule *)
(* file exists and holds exactly the returned rule set, so load_rules      *)
(* gives it back; the call keeps every field it loaded, and each field     *)
(* other than the one of its kind keeps its value: the value in the file   *)
(* before, or the built-in default when there was no file.                 *)
C12_WholeRuleSetPersisted ==
    /\ [](last_call.op # "none" =>
            /\ rules_file.exists
            /\ rules_file.doc = returned
            /\ load_rules(rules_file) = returned)
    /\ [][LET before == IF rules_file.exists THEN rules_file.doc
                                              ELSE DefaultRules
          IN  \A f \in DOMAIN before :
                 /\ f \in DOMAIN rules_file'.doc
                 /\ f # FieldOf(last_call'.kind) => rules_file'.doc[f] = before[f]]_vars

\* add_rule("term", "k1", "v1") was called with no rule file: the file now
\* holds the built-in defaults and the new term
C12_Witness ==
    /\ last_call.op = "add"
    /\ last_call.kind = "term"
    /\ rules_file.exists
    /\ DOMAIN rules_file.doc = DOMAIN DefaultRules \cup {"term_corrections"}
    /\ rules_file.doc["term_corrections"] = << <<"k1", "v1">> >>
    /\ \A f \in DOMAIN DefaultRules : rules_file.doc[f] = DefaultRules[f]

\* the keys of a dict
Keys(items) == { items[p][1] : p \in 1..Len(items) }

(* C14 (RulesSpec): when add_rule("term", k, v2) follows an add_rule       *)
(* ("term", k, v1), and likewise for "reading", the mapping in the file    *)
(* and in the returned rule set holds k exactly once, with value v2; it    *)
(* has the keys it had, every other key with the value it had, and the     *)
(* other fields of the rule set are the ones the file had, unchanged.      *)
C14_LastWriteWins ==
    [][\A kind \in {"term", "reading"} : \A key \in KeysOf(kind) : \A v2 \in Values :
          (Again("add", kind, key) /\ add_rule(kind, key, v2)) =>
             LET f == FieldOf(kind)
                 before == rules_file.doc
                 after == rules_file'.doc
             IN  /\ Cardinality({ p \in 1..Len(after[f]) : after[f][p][1] = key }) = 1
                 /\ GetItem(after[f], key) = v2
                 /\ Keys(after[f]) = Keys(before[f])
                 /\ \A k \in Keys(before[f]) \ {key} :
                        /\ Cardinality({ p \in 1..Len(after[f]) : after[f][p][1] = k }) = 1
                        /\ GetItem(after[f], k) = GetItem(before[f], k)
                 /\ DOMAIN after = DOMAIN before
                 /\ \A g \in DOMAIN before \ {f} : after[g] = before[g]
                 /\ returned' = after]_vars

\* add_rule("term", "k1", "v2") was called right after add_rule("term", "k1",
\* "v1"), on a mapping that holds another key
C14_Witness ==
    /\ last_call.op = "add"
    /\ last_call.kind = "term"
    /\ last_call.key = "k1"
    /\ last_call.again
    /\ last_call.replaced = "v1"
    /\ last_call.value = "v2"
    /\ rules_file.doc["term_corrections"] = << <<"k2", "v1">>, <<"k1", "v2">> >>

\* the indexes of a document, in order
IndexesOf(es) == [p \in 1..Len(es) |-> es[p].index]

(* C15 (ParseSpec): for every text, parse_srt of build_srt of parse_srt of *)
(* the text has as many entries as parse_srt of the text, with the same    *)
(* indexes in the same order.                                              *)
C15_RoundTrip ==
    step = "reparsed" =>
        /\ Len(reparsed) = Len(entries)
        /\ IndexesOf(reparsed) = IndexesOf(entries)

\* a text of a block of one line, dropped as malformed, and two entries
\* went round
C15_Witness ==
    /\ step = "reparsed"
    /\ content = <<"1", "\n", "\n", "1", "\n", "1", "\n", "\n", "1", "\n", "1">>
    /\ IndexesOf(entries) = <<1, 1>>
    /\ IndexesOf(reparsed) = <<1, 1>>

(* C16 (LongSpec): the context in the system prompt of every request is    *)
(* the first 3000 characters of the entry texts joined by single spaces    *)
(* when that string is longer than 3000 characters, and the whole string   *)
(* otherwise; every request of a run carries the same system prompt, the   *)
(* one built from the input document before the first batch.               *)
C16_ContextTruncated ==
    LET full == get_full_context(entries)
    IN  /\ Len(full) = Len(entries[1].text) + 1 + Len(entries[2].text)
        /\ \A k \in 1..Len(requests) :
              /\ Len(full) > 3000 =>
                    /\ Len(requests[k].context) = 3000
                    /\ \A p \in 1..3000 : requests[k].context[p] = full[p]
              /\ Len(full) <= 3000 => requests[k].context = full
              /\ requests[k] = requests[1]
              /\ requests[k] = system_prompt

\* two requests were made for a document whose context has 4500 characters:
\* the cut falls inside the text of the second entry
C16_Witness ==
    /\ Len(requests) = 2
    /\ Len(get_full_context(entries)) = 4500
    /\ Len(requests[2].context) = 3000
    /\ requests[2].context[3000] = "b"

\* batch k of the document (from 1) holds an entry that is not blank
HasPayload(k) == \E j \in 1..Len(Chunk(k)) : NonBlank(Chunk(k)[j].text)

\* the loop has come to batch k and past the test of its payload
Reached(k) ==
    \/ (k - 1) * batch_size < batch_start
    \/ (k - 1) * batch_size = batch_start /\ pc \in {"await", "merge", "except"}

(* C17 (Spec): at every point of a run the number of requests made to the  *)
(* model is the number of batches reached so far that hold an entry that   *)
(* is not blank: one request for each such batch, whether it succeeded or  *)
(* failed, and none for a batch of blank entries, whose entries are copied *)
(* to the output as they are; when the run returns it is the number of     *)
(* batches of the document with such an entry.                             *)
C17_OneCallPerPayload ==
    LET batches == 1..CeilDiv(Len(entries), batch_size)
    IN  /\ Len(requests) = Cardinality({ k \in batches : HasPayload(k) /\ Reached(k) })
        /\ pc = "done" => Len(requests) = Cardinality({ k \in batches : HasPayload(k) })
        /\ EndedAs("passthrough") =>
              /\ \A j \in 1..Len(batch) : Blank(batch[j].text)
              /\ Appended = batch

\* a run of three batches has returned: one batch was blank, two requests
\* were made, and the last of them failed
C17_Witness ==
    /\ pc = "done"
    /\ batch_size = 1
    /\ Len(entries) = 3
    /\ Blank(entries[1].text)
    /\ Len(requests) = 2
    /\ ended = "fallback"

\* the rule set with an empty term_corrections mapping
WithoutTerms(rs) == Put(rs, "term_corrections", <<>>)

(* C18 (ConsoleSpec): for every batch and every parsed reply of a run, in  *)
(* either direction, what restoration appends to the output and how the    *)
(* batch ends is what correction with an empty term_corrections mapping    *)
(* appends and how it ends; a batch that is passed through or whose call   *)
(* fails is handled by steps that do not look at the direction.            *)
C18_DirectionsAgree ==
    pc = "merge" =>
        MergeFrom("restore", batch, 1, corrections, rules, <<>>)
          = MergeFrom("correct", batch, 1, corrections, WithoutTerms(rules), <<>>)

\* a step of add_rule or remove_rule
Mutation ==
    \/ \E kind \in Kinds : \E key \in KeysOf(kind) : \E value \in Values \cup {"none"} :
          add_rule(kind, key, value)
    \/ \E kind \in Kinds : \E key \in KeysOf(kind) : remove_rule(kind, key)

(* C13 (CliSpec): the rule file changes only in a step of add_rule or      *)
(* remove_rule: list_rules, the load_rules of a run and the run itself     *)
(* leave it as it is, so a file that is absent stays absent until such a   *)
(* step; while it is absent, list_rules returns the built-in defaults and  *)
(* a correction or restoration run works with the built-in defaults.       *)
C13_DefaultsNotPersisted ==
    /\ [][rules_file' # rules_file => Mutation]_vars
    /\ [][(~rules_file.exists /\ ~Mutation) => ~rules_file'.exists]_vars
    /\ []((~rules_file.exists /\ last_call.op = "list") => returned = DefaultRules)
    /\ []((~rules_file.exists /\ step \in {"run", "returned"}) => rules = DefaultRules)

\* with no rule file, list_rules was called and then a run made a request
\* to the model and wrote its output: there is still no rule file
C13_Witness ==
    /\ ~rules_file.exists
    /\ last_call.op = "list"
    /\ returned = DefaultRules
    /\ step = "returned"
    /\ rules = DefaultRules
    /\ Len(requests) >= 1

(* C19 (CliSpec): in correct_srt_file and restore_srt_file the output file *)
(* is written at most once, and only in the step that follows the return   *)
(* of the engine, when every batch of the document read from the input     *)
(* file has been handled; no other step changes it. When the input file    *)
(* cannot be read, no request is made to the model and the file at the     *)
(* output path is never written. A run that returns has written what       *)
(* build_srt makes of the engine's output, also when a batch failed.       *)
C19_OutputWrittenLast ==
    /\ [](writes <= 1)
    /\ [][(output_file' # output_file \/ writes' # writes) =>
            /\ writes' = writes + 1
            /\ step = "run" /\ pc = "done"
            /\ handled = CeilDiv(Len(entries), batch_size)
            /\ input_file.exists
            /\ entries = parse_srt(input_file.doc)]_vars
    /\ [](~input_file.exists => requests = <<>> /\ writes = 0)
    /\ [][~input_file.exists => output_file' = output_file]_vars
    /\ [](step = "returned" =>
            /\ writes = 1
            /\ output_file = TextFile(build_srt(corrected_entries)))

\* a run of two batches has returned: the call of the second batch failed,
\* and the output file holds the first entry as merged and the second as read
C19_Witness ==
    /\ step = "returned"
    /\ writes = 1
    /\ handled = 2
    /\ ended = "fallback"
    /\ Len(requests) = 2
    /\ corrected_entries[1].text # entries[1].text
    /\ parse_srt(output_file.doc) = corrected_entries

(* C20 (Spec): no step of a run changes the input document: every entry of *)
(* it keeps its index, timestamp and text, whether the batches are merged, *)
(* passed through or fall back; and every entry of the output list is an   *)
(* object of its own: none is an entry of the input list, and no two are   *)
(* the same object.                                                        *)
C20_InputNotMutated ==
    /\ [][entries' = entries]_vars
    /\ [](/\ Len(out_ids) = Len(corrected_entries)
          /\ \A j \in 1..Len(out_ids) : out_ids[j] > Len(entries)
          /\ \A j, k \in 1..Len(out_ids) : out_ids[j] = out_ids[k] => j = k)

\* a run of two batches has returned: the first was merged with a new text
\* for its entry, the second fell back
C20_Witness ==
    /\ pc = "done"
    /\ batch_size = 1
    /\ Len(entries) = 2
    /\ Len(corrected_entries) = 2
    /\ corrected_entries[1].text # entries[1].text
    /\ corrected_entries[2] = entries[2]
    /\ ended = "fallback"

----------------------------------------------------------------------------
\* two non-blank entries of b have the same index
SharesIndex(b) ==
    \E j \in 1..Len(b) : \E q \in 1..Len(b) :
        /\ j < q
        /\ NonBlank(b[j].text) /\ NonBlank(b[q].text)
        /\ b[j].index = b[q].index

\* the keys that more than one non-blank entry of the batch sends
SharedKeys == { k \in OwnKeys : Cardinality(Senders(k)) > 1 }

(* C21 (DupSpec): parse_srt returns one entry per block of the file, in    *)
(* the file's order, also for blocks that repeat an index; while a request *)
(* is outstanding for a batch in which non-blank entries share an index,   *)
(* the payload has one key for them, with the text of the last of them;    *)
(* once such a batch is merged, each of them has the reply's value for     *)
(* that key as text; and at the return of a run that formed such a batch   *)
(* the output has as many entries as the input, the p-th with the index    *)
(* and the timestamp of the p-th input entry.                              *)
C21_RepeatedIndexes ==
    /\ step \in {"parsed", "run"} =>
          /\ entries \in DupDocs
          /\ build_srt(entries) = input_file.doc
    /\ (pc = "await" /\ SharesIndex(batch)) =>
          /\ Cardinality(DOMAIN batch_texts) < Len(batch)
          /\ \A k \in SharedKeys :
                /\ k \in DOMAIN batch_texts
                /\ batch_texts[k] = batch[Latest(Senders(k))].text
    /\ (EndedAs("merged") /\ SharesIndex(batch)) =>
          \A k \in SharedKeys \cap DOMAIN corrections :
              \A j \in Senders(k) : StrVal(Appended[j].text) = TakenFromReply(k)
    /\ (pc = "done" /\ \E f \in 1..Len(formed) : SharesIndex(formed[f])) =>
          /\ Len(corrected_entries) = Len(entries)
          /\ \A p \in 1..Len(entries) :
                /\ corrected_entries[p].index = entries[p].index
                /\ corrected_entries[p].timestamp = entries[p].timestamp

====
